---------------------------- MODULE Spec2Model ----------------------------
(***************************************************************************)
(* pngme: the PNG chunk-type classifier (chunk_type.rs), the chunk codec   *)
(* (chunk.rs) and the command handlers of main.rs, as state machines.      *)
(*                                                                         *)
(* Representation of the program's values                                  *)
(*   u8          a number in 0..255                                        *)
(*   [u8; 4]     a sequence of 4 numbers                                   *)
(*   &str        the sequence of its UTF-8 bytes                           *)
(*   u32         a pair <<hi, lo>> of 16-bit halves (value hi*2^16 + lo,   *)
(*               hi < 2^16): the model checker's integers are narrower     *)
(*               than 32 unsigned bits                                     *)
(*   usize       a pair <<hi, lo>> with lo < 2^16 and hi unbounded, so a   *)
(*               usize x fits a u32 exactly when x[1] < 2^16               *)
(*   Vec<u8>,    a run-length sequence: a sequence of runs                 *)
(*   &[u8],      [b |-> byte, n |-> usize], n > 0, neighbouring runs of    *)
(*   String      different bytes.  This is the byte string itself, written *)
(*               so that a payload of 2^32 bytes is a value of the model.  *)
(***************************************************************************)
EXTENDS Naturals, Sequences, FiniteSets, TLC

--------------------------------------------------------------------------
(* Machine integers *)

Half == 256 * 256

\* usize / u32 arithmetic on <<hi, lo>> pairs.
Sz(n) == <<n \div Half, n % Half>>

SzZero == <<0, 0>>

SzAdd(a, b) == <<a[1] + b[1] + ((a[2] + b[2]) \div Half), (a[2] + b[2]) % Half>>

SzLt(a, b) == a[1] < b[1] \/ (a[1] = b[1] /\ a[2] < b[2])

SzLeq(a, b) == a = b \/ SzLt(a, b)

\* a - b, for b <= a
SzSub(a, b) ==
    IF a[2] >= b[2] THEN <<a[1] - b[1], a[2] - b[2]>>
    ELSE <<a[1] - b[1] - 1, a[2] + Half - b[2]>>

\* `x as u32` of a usize x: the low 32 bits.
AsU32(x) == <<x[1] % Half, x[2]>>

\* `x as usize` of a u32 x (a 64-bit target): the same value.
AsUsize(x) == x

\* u32::to_be_bytes
to_be_bytes(x) == <<x[1] \div 256, x[1] % 256, x[2] \div 256, x[2] % 256>>

\* u32::from_be_bytes
from_be_bytes(b) == <<b[1] * 256 + b[2], b[3] * 256 + b[4]>>

\* bit j of a number
Bit(a, j) == (a \div (2 ^ j)) % 2

--------------------------------------------------------------------------
(* Byte strings: Vec<u8>, &[u8] *)

Run(b, n) == [b |-> b, n |-> n]

\* The folds over the runs split the range of runs in halves, so that the
\* depth of an evaluation grows with the logarithm of the number of runs.

\* the number of bytes in the runs i .. j of v
RECURSIVE VLenIn(_, _, _)
VLenIn(v, i, j) ==
    IF i > j THEN SzZero
    ELSE IF i = j THEN v[i].n
    ELSE IF i + 1 = j THEN SzAdd(v[i].n, v[j].n)
    ELSE SzAdd(VLenIn(v, i, (i + j) \div 2), VLenIn(v, (i + j) \div 2 + 1, j))

\* len()
VLen(v) == VLenIn(v, 1, Len(v))

\* concatenation (Iterator::chain ... collect, Vec::extend)
VCat(v, w) ==
    IF v = <<>> THEN w
    ELSE IF w = <<>> THEN v
    ELSE IF v[Len(v)].b = w[1].b
         THEN SubSeq(v, 1, Len(v) - 1)
              \o <<Run(w[1].b, SzAdd(v[Len(v)].n, w[1].n))>>
              \o Tail(w)
         ELSE v \o w

\* the byte string of the bytes i .. j of a sequence of bytes
RECURSIVE VOfIn(_, _, _)
VOfIn(s, i, j) ==
    IF i > j THEN <<>>
    ELSE IF i = j THEN <<Run(s[i], Sz(1))>>
    ELSE VCat(VOfIn(s, i, (i + j) \div 2), VOfIn(s, (i + j) \div 2 + 1, j))

\* the byte string of a sequence of bytes
VOf(s) == VOfIn(s, 1, Len(s))

\* the first k bytes of the runs i .. j of v, all of them when k is more
RECURSIVE VTakeIn(_, _, _, _)

\* left is the number of bytes in the runs i .. m
VTakeSplit(v, i, m, j, k, left) ==
    IF SzLeq(k, left) THEN VTakeIn(v, i, m, k)
    ELSE SubSeq(v, i, m) \o VTakeIn(v, m + 1, j, SzSub(k, left))

VTakeIn(v, i, j, k) ==
    IF i > j \/ k = SzZero THEN <<>>
    ELSE IF i = j
         THEN IF SzLeq(v[i].n, k) THEN <<v[i]>> ELSE <<Run(v[i].b, k)>>
    ELSE VTakeSplit(v, i, (i + j) \div 2, j, k, VLenIn(v, i, (i + j) \div 2))

\* the first k bytes of v lie in its first k runs, a run being a byte or more
Within(v, k) == IF k[1] = 0 /\ k[2] < Len(v) THEN k[2] ELSE Len(v)

\* the first k bytes of v, for k <= VLen(v)
VTake(v, k) == VTakeIn(v, 1, Within(v, k), k)

\* len() < k: the first k bytes of v are fewer than k
VShorter(v, k) == SzLt(VLen(VTake(v, k)), k)

\* the runs i .. j of v without their first k bytes, none when k is more
RECURSIVE VDropIn(_, _, _, _)

\* left is the number of bytes in the runs i .. m
VDropSplit(v, i, m, j, k, left) ==
    IF SzLeq(left, k) THEN VDropIn(v, m + 1, j, SzSub(k, left))
    ELSE VDropIn(v, i, m, k) \o SubSeq(v, m + 1, j)

VDropIn(v, i, j, k) ==
    IF i > j THEN <<>>
    ELSE IF k = SzZero THEN SubSeq(v, i, j)
    ELSE IF i = j
         THEN IF SzLeq(v[i].n, k) THEN <<>>
              ELSE <<Run(v[i].b, SzSub(v[i].n, k))>>
    ELSE VDropSplit(v, i, (i + j) \div 2, j, k, VLenIn(v, i, (i + j) \div 2))

\* v without the first k bytes of its first w runs
VDropWithin(v, k, w) == VDropIn(v, 1, w, k) \o SubSeq(v, w + 1, Len(v))

\* v without its first k bytes, for k <= VLen(v)
VDrop(v, k) == VDropWithin(v, k, Within(v, k))

\* the bytes of the runs of a short byte string from run i on, one by one
RECURSIVE VSeqFrom(_, _)
VSeqFrom(v, i) ==
    IF i > Len(v) THEN <<>>
    ELSE [q \in 1..(v[i].n[1] * Half + v[i].n[2]) |-> v[i].b]
         \o VSeqFrom(v, i + 1)

\* the bytes of a short byte string, one by one
VSeq(v) == VSeqFrom(v, 1)

--------------------------------------------------------------------------
(* CRC-32/ISO-HDLC, as Crc::<u32>::new(&CRC_32_ISO_HDLC).checksum computes  *)
(* it: width 32, poly 0x04c11db7, init 0xffffffff, input and output         *)
(* reflected, xorout 0xffffffff.                                            *)
(* The CRC register is the set of the bits of a u32 that are set (bit 0 the *)
(* lowest), so that xor is the symmetric difference.                        *)

\* the register of a u32
BitsOf(x) ==
    {i \in 0..31 : Bit(IF i < 16 THEN x[2] ELSE x[1], i % 16) = 1}

\* the bits of a byte
ByteBits(b) == {i \in 0..7 : Bit(b, i) = 1}

Weight(s, i) == IF i \in s THEN 2 ^ (i % 16) ELSE 0

\* the 16-bit half of a register whose lowest bit is bit lo
HalfWord(s, lo) ==
    (((Weight(s, lo) + Weight(s, lo + 1))
      + (Weight(s, lo + 2) + Weight(s, lo + 3)))
     + ((Weight(s, lo + 4) + Weight(s, lo + 5))
        + (Weight(s, lo + 6) + Weight(s, lo + 7))))
    + (((Weight(s, lo + 8) + Weight(s, lo + 9))
        + (Weight(s, lo + 10) + Weight(s, lo + 11)))
       + ((Weight(s, lo + 12) + Weight(s, lo + 13))
          + (Weight(s, lo + 14) + Weight(s, lo + 15))))

\* the u32 of a register
U32Of(s) == <<HalfWord(s, 16), HalfWord(s, 0)>>

\* s ^ t
Xor(s, t) == (s \ t) \cup (t \ s)

\* s >> k
Shr(s, k) == {i - k : i \in {q \in s : q >= k}}

\* 0xEDB88320: the polynomial 0x04C11DB7, bit-reflected
PolyReflected == BitsOf(<<60856, 33568>>)

\* 0xFFFFFFFF: the initial register and the final xor
AllOnes == 0..31

\* one bit of input shifted out of the (reflected) register
CrcBit(r) == IF 0 \in r THEN Xor(Shr(r, 1), PolyReflected) ELSE Shr(r, 1)

RECURSIVE CrcBits(_, _)
CrcBits(r, k) == IF k = 0 THEN r ELSE CrcBit(CrcBits(r, k - 1))

\* the register 0x000000ii after eight bits: the crate's 256-entry table,
\* indexed by the bits of i
CrcTable == [low \in SUBSET (0..7) |-> CrcBits(low, 8)] @@ <<>>

\* entry k, k = 0..7: the register after k bits, for the registers that
\* have no bit set above bit k - 1
CrcSteps ==
    [k \in 0..7 |->
        [low \in SUBSET (0..(k - 1)) |-> CrcBits(low, k)] @@ <<>>] @@ <<>>

\* k < 8 bits: the k low bits leave through the table, the others shift
CrcShift(r, k) == Xor(CrcSteps[k][r \cap (0..(k - 1))], Shr(r, k))

\* eight bits: the register after a zero byte
CrcShift8(r) == Xor(CrcTable[r \cap (0..7)], Shr(r, 8))

\* the register after one byte b of input:
\* table[(crc ^ b) & 0xff] ^ (crc >> 8)
CrcByte(r, b) ==
    Xor(CrcTable[Xor(r \cap (0..7), ByteBits(b))], Shr(r, 8))

\* The register as a polynomial over GF(2) modulo the CRC polynomial (bit 31
\* is the coefficient of x^0): CrcBit multiplies by x, MulModP multiplies two
\* registers.  Used only to feed a long run of equal bytes without iterating
\* over it.

\* b * x^i
MulX(b, b8, b16, b24, i) ==
    CrcShift(IF i < 8 THEN b ELSE IF i < 16 THEN b8
             ELSE IF i < 24 THEN b16 ELSE b24, i % 8)

\* the products b * x^i for the x^i in a, each with its i
MulTerms(a, b, b8, b16, b24) ==
    {<<i, MulX(b, b8, b16, b24, i)>> : i \in {31 - q : q \in a}}

\* the xor of the registers of a set of terms: a bit is set when an odd
\* number of them have it set
XorAll(terms) ==
    IF terms = terms
    THEN {j \in 0..31 : Cardinality({t \in terms : j \in t[2]}) % 2 = 1}
    ELSE {}

\* a * b, given b * x^8, b * x^16 and b * x^24
MulBy(a, b, b8, b16, b24) ==
    IF b24 = b24 THEN XorAll(MulTerms(a, b, b8, b16, b24)) ELSE {}

\* Each register is computed before it is passed on: the model checker
\* evaluates an operator's arguments only when they are used, and would
\* otherwise compute them in one deep nest at the innermost use.
MulFrom16(a, b, b8, b16) ==
    IF b16 = b16 THEN MulBy(a, b, b8, b16, CrcShift8(b16)) ELSE {}

MulFrom8(a, b, b8) ==
    IF b8 = b8 THEN MulFrom16(a, b, b8, CrcShift8(b8)) ELSE {}

\* a * b
MulModP(a, b) == IF b = b THEN MulFrom8(a, b, CrcShift8(b)) ELSE {}

\* x^0
PolyOne == {31}

\* Feeding m copies of a byte b takes register r to r * x^(8m) + b * g(m),
\* g(m) = x^8 + x^16 + ... + x^(8m).  Feed(m) = <<x^(8m), g(m)>>; feeding m
\* and then k copies composes them.
Compose(e, f) == <<MulModP(e[1], f[1]), Xor(e[2], MulModP(e[1], f[2]))>>

\* entry j + 1 is Feed(2^j) as two u32, j = 0..43: the first is <<x^8, x^8>>,
\* and each is the one before composed with itself
FeedPow2 ==
    <<<<<<128, 0>>, <<128, 0>>>>, <<<<0, 32768>>, <<128, 32768>>>>,
      <<<<60856, 33568>>, <<60728, 928>>>>, <<<<45542, 45202>>, <<27441, 34498>>>>,
      <<<<41066, 9495>>, <<39344, 35604>>>>, <<<<60770, 32174>>, <<32904, 36155>>>>,
      <<<<35025, 17511>>, <<13704, 61775>>>>, <<<<55227, 65130>>, <<39367, 11625>>>>,
      <<<<60484, 32529>>, <<27654, 55109>>>>, <<<<36478, 41328>>, <<39467, 59121>>>>,
      <<<<25639, 32782>>, <<39707, 65230>>>>, <<<<19783, 47840>>, <<41063, 49664>>>>,
      <<<<2558, 21647>>, <<37030, 17792>>>>, <<<<33669, 11535>>, <<6518, 50585>>>>,
      <<<<12342, 12058>>, <<2010, 10270>>>>, <<<<31578, 40131>>, <<40046, 12807>>>>,
      <<<<12798, 49513>>, <<63230, 9916>>>>, <<<<40940, 554>>, <<22304, 31070>>>>,
      <<<<27789, 60868>>, <<6211, 35091>>>>, <<<<5590, 34637>>, <<23312, 26866>>>>,
      <<<<24542, 31310>>, <<688, 64909>>>>, <<<<47833, 3639>>, <<32064, 1976>>>>,
      <<<<11854, 24303>>, <<29403, 61993>>>>, <<<<20139, 41492>>, <<57003, 40697>>>>,
      <<<<43172, 29376>>, <<62930, 45719>>>>, <<<<17050, 38558>>, <<22770, 9379>>>>,
      <<<<5261, 12330>>, <<32347, 43559>>>>, <<<<50187, 42704>>, <<8804, 31078>>>>,
      <<<<50402, 11324>>, <<33918, 56623>>>>, <<<<16384, 0>>, <<27055, 28051>>>>,
      <<<<8192, 0>>, <<45248, 22650>>>>, <<<<2048, 0>>, <<29000, 52548>>>>,
      <<<<128, 0>>, <<128, 0>>>>, <<<<0, 32768>>, <<128, 32768>>>>,
      <<<<60856, 33568>>, <<60728, 928>>>>, <<<<45542, 45202>>, <<27441, 34498>>>>,
      <<<<41066, 9495>>, <<39344, 35604>>>>, <<<<60770, 32174>>, <<32904, 36155>>>>,
      <<<<35025, 17511>>, <<13704, 61775>>>>, <<<<55227, 65130>>, <<39367, 11625>>>>,
      <<<<60484, 32529>>, <<27654, 55109>>>>, <<<<36478, 41328>>, <<39467, 59121>>>>,
      <<<<25639, 32782>>, <<39707, 65230>>>>, <<<<19783, 47840>>, <<41063, 49664>>>>>>

\* Feed(0)
FeedNone == <<PolyOne, {}>>

\* bit j of a usize
SzBit(n, j) == IF j < 16 THEN Bit(n[2], j) ELSE Bit(n[1], j - 16)

Join(e, f) ==
    IF e = FeedNone THEN f ELSE IF f = FeedNone THEN e ELSE Compose(e, f)

\* Feed of the binary digits lo .. hi - 1 of n
RECURSIVE FeedDigits(_, _, _)
FeedDigits(n, lo, hi) ==
    IF hi = lo + 1
    THEN IF SzBit(n, lo) = 1
         THEN <<BitsOf(FeedPow2[lo + 1][1]), BitsOf(FeedPow2[lo + 1][2])>>
         ELSE FeedNone
    ELSE Join(FeedDigits(n, lo, (lo + hi) \div 2),
              FeedDigits(n, (lo + hi) \div 2, hi))

\* Feed(n) = <<x^(8n), x^8 + x^16 + ... + x^(8n)>> for n < 2^44
PowSum(n) == FeedDigits(n, 0, 44)

\* the register after k copies of byte b, one by one: the first half of
\* them, then the rest
RECURSIVE CrcRepeat(_, _, _)
\* the register r2 is computed before the rest is fed
CrcRepeatFrom(r2, b, k) == IF r2 = r2 THEN CrcRepeat(r2, b, k) ELSE r2
CrcRepeat(r, b, k) ==
    IF k = 0 THEN r
    ELSE IF k = 1 THEN CrcByte(r, b)
    ELSE CrcRepeatFrom(CrcRepeat(r, b, k \div 2), b, k - k \div 2)

\* the register r after the copies of byte b that h = Feed(n) stands for
CrcFeed(h, r, b) == Xor(MulModP(r, h[1]), MulModP(ByteBits(b), h[2]))

\* the register after n copies of byte b
\* Feed(n) is computed before it is applied
CrcFeedFrom(h, r, b) == IF h = h THEN CrcFeed(h, r, b) ELSE r

CrcRun(r, b, n) ==
    IF n[1] = 0 /\ n[2] < 16 THEN CrcRepeat(r, b, n[2])
    ELSE CrcFeedFrom(PowSum(n), r, b)

\* the register after the runs i .. j of v: the first half of them, then
\* the rest
RECURSIVE CrcUpdateIn(_, _, _, _)
CrcUpdateFrom(r2, v, i, j) ==
    IF r2 = r2 THEN CrcUpdateIn(r2, v, i, j) ELSE r2
CrcUpdateIn(r, v, i, j) ==
    IF i > j THEN r
    ELSE IF i = j THEN CrcRun(r, v[i].b, v[i].n)
    ELSE CrcUpdateFrom(CrcUpdateIn(r, v, i, (i + j) \div 2),
                       v, (i + j) \div 2 + 1, j)

\* the register after the runs of v
CrcUpdate(r, v) == CrcUpdateIn(r, v, 1, Len(v))

\* the register after the input, xored with 0xffffffff
Finalize(r) == IF r = r THEN U32Of(Xor(r, AllOnes)) ELSE <<0, 0>>

\* Crc::<u32>::new(&CRC_32_ISO_HDLC).checksum(bytes)
checksum(v) == Finalize(CrcUpdate(AllOnes, v))

--------------------------------------------------------------------------
(* Results: Result<T, Error>, and a panic (the thread aborts). *)

Ok(v) == [tag |-> "Ok", val |-> v]
Err(e) == [tag |-> "Err", err |-> e]
Panic(e) == [tag |-> "Panic", err |-> e]

--------------------------------------------------------------------------
(* chunk_type.rs *)

is_ascii_uppercase(c) == c \in 65..90
is_ascii_lowercase(c) == c \in 97..122
is_ascii_alphabetic(c) == is_ascii_uppercase(c) \/ is_ascii_lowercase(c)

\* ChunkType(value): a ChunkType is its four bytes
bytes(t) == t

is_critical(t) == is_ascii_uppercase(t[1])
is_public(t) == is_ascii_uppercase(t[2])
is_reserved_bit_valid(t) == is_ascii_uppercase(t[3])
is_safe_to_copy_upper(t) == is_ascii_uppercase(t[4])
is_safe_to_copy(t) == is_ascii_lowercase(t[4])
is_valid(t) == is_reserved_bit_valid(t)

\* impl TryFrom<[u8; 4]> for ChunkType
ChunkType_try_from(value) ==
    IF \A i \in 1..Len(value) : is_ascii_alphabetic(value[i])
    THEN Ok(value)
    ELSE Err("Invalid ChunkType")

\* <[u8; 4]>::try_from(&[u8]): the slice as an array, when it has 4 bytes
try_into(slice) ==
    IF VLen(slice) = Sz(4) THEN Ok(VSeq(slice)) ELSE Err("TryFromSliceError")

\* from_str without the test that every byte is a letter
from_str_unchecked(s) ==
    LET a == try_into(s)
    IN  IF a.tag = "Ok" THEN Ok(a.val) ELSE a

\* impl FromStr for ChunkType
from_str(s) ==
    IF \A i \in 1..Len(s) : is_ascii_alphabetic(s[i].b)
    THEN LET a == try_into(s)
         IN  IF a.tag = "Ok" THEN Ok(a.val) ELSE a
    ELSE Err("Invalid ChunkType")

--------------------------------------------------------------------------
(* chunk.rs *)

\* Chunk::new with the checksum taken over the payload alone
Chunk_new_data_crc(chunk_type, data) ==
    [length     |-> AsU32(VLen(data)),
     chunk_type |-> chunk_type,
     data       |-> data,
     crc        |-> checksum(data)]

\* Chunk::new
Chunk_new(chunk_type, data) ==
    [length     |-> AsU32(VLen(data)),
     chunk_type |-> chunk_type,
     data       |-> data,
     crc        |-> checksum(VCat(VOf(bytes(chunk_type)), data))]

length(c) == c.length
chunk_type(c) == c.chunk_type
data(c) == c.data
crc(c) == c.crc

\* core::str::from_utf8's validation, on the byte string
RECURSIVE Utf8Valid(_)
Utf8Valid(v) ==
    IF v = <<>> THEN TRUE
    ELSE LET b1 == v[1].b
             n  == VLen(v)
             s  == VSeq(VTake(v, IF SzLt(n, Sz(4)) THEN n ELSE Sz(4)))
             cont(i) == i <= Len(s) /\ s[i] \in 128..191
         IN  IF b1 < 128 THEN Utf8Valid(Tail(v))
             ELSE IF b1 \in 194..223
                  THEN cont(2) /\ Utf8Valid(VDrop(v, Sz(2)))
             ELSE IF b1 \in 224..239
                  THEN /\ Len(s) >= 2
                       /\ \/ b1 = 224 /\ s[2] \in 160..191
                          \/ b1 \in (225..236) \cup (238..239) /\ s[2] \in 128..191
                          \/ b1 = 237 /\ s[2] \in 128..159
                       /\ cont(3)
                       /\ Utf8Valid(VDrop(v, Sz(3)))
             ELSE IF b1 \in 240..244
                  THEN /\ Len(s) >= 2
                       /\ \/ b1 = 240 /\ s[2] \in 144..191
                          \/ b1 \in 241..243 /\ s[2] \in 128..191
                          \/ b1 = 244 /\ s[2] \in 128..143
                       /\ cont(3) /\ cont(4)
                       /\ Utf8Valid(VDrop(v, Sz(4)))
             ELSE FALSE

\* Chunk::data_as_string
data_as_string(c) ==
    IF Utf8Valid(c.data) THEN Ok(c.data) ELSE Err("FromUtf8Error")

\* Chunk::as_bytes
as_bytes(c) ==
    VCat(VCat(VCat(VOf(to_be_bytes(c.length)), VOf(bytes(c.chunk_type))),
              c.data),
         VOf(to_be_bytes(c.crc)))

\* head is what the reader gives of the 4 bytes asked for: fewer is an error
read_filled(head, reader) ==
    IF SzLt(VLen(head), Sz(4)) THEN Err("failed to fill whole buffer")
    ELSE Ok(<<VSeq(head), VDrop(reader, Sz(4))>>)

\* Read::read_exact into a 4-byte buffer: <<the bytes, the reader after them>>
read_exact(reader) == read_filled(VTake(reader, Sz(4)), reader)

\* the vector after everything but its last 4 bytes went to the payload
drain_to_crc(vec, n) ==
    IF SzLt(VLen(vec), Sz(4)) THEN Panic("range end index out of range")
    ELSE Ok(<<VTake(vec, SzSub(VLen(vec), Sz(4))),
              VDrop(vec, SzSub(VLen(vec), Sz(4)))>>)

\* vec.drain(..n).collect(): <<the first n bytes, the vector after them>>;
\* the range must lie within the vector
drain(vec, n) ==
    IF VShorter(vec, n) THEN Panic("range end index out of range")
    ELSE Ok(<<VTake(vec, n), VDrop(vec, n)>>)

\* a comparison that lets every stored CRC pass
crc_differs_never(stored, expected_crc) == FALSE

\* crc != expected_crc
crc_differs(stored, expected_crc) == stored # expected_crc

\* impl TryFrom<&[u8]> for Chunk
Chunk_try_from(value) ==
    IF VShorter(value, Sz(12)) THEN Err("invalid length")
    ELSE
    LET r1 == read_exact(value) IN
    IF r1.tag # "Ok" THEN r1 ELSE
    LET len == from_be_bytes(r1.val[1])
        r2  == read_exact(r1.val[2]) IN
    IF r2.tag # "Ok" THEN r2 ELSE
    LET ct == ChunkType_try_from(r2.val[1]) IN
    IF ct.tag # "Ok" THEN ct ELSE
    LET drained == drain(r2.val[2], AsUsize(len)) IN
    IF drained.tag # "Ok" THEN drained ELSE
    LET r3 == read_exact(drained.val[2]) IN
    IF r3.tag # "Ok" THEN r3 ELSE
    LET stored   == from_be_bytes(r3.val[1])
        expected == checksum(VCat(VOf(bytes(ct.val)), drained.val[1])) IN
    IF crc_differs(stored, expected) THEN Err("invalid crc")
    ELSE Ok([length |-> len, chunk_type |-> ct.val,
             data |-> drained.val[1], crc |-> stored])

--------------------------------------------------------------------------
(* png.rs: the image container.  A Png is the sequence of its chunks. *)

STANDARD_HEADER == <<137, 80, 78, 71, 13, 10, 26, 10>>

\* the chunk records of a buffer, decoded one after the other, the offset
\* advancing by 12 + length, until the buffer is exhausted
RECURSIVE DecodeChunks(_)

DecodePrepend(chunk, more) ==
    IF more.tag # "Ok" THEN more ELSE Ok(<<chunk>> \o more.val)

DecodeAfter(first, buffer) ==
    IF first.tag # "Ok" THEN first
    ELSE DecodePrepend(
             first.val,
             DecodeChunks(VDrop(buffer,
                                SzAdd(Sz(12), AsUsize(first.val.length)))))

DecodeChunks(buffer) ==
    IF buffer = <<>> THEN Ok(<<>>)
    ELSE DecodeAfter(Chunk_try_from(buffer), buffer)

\* impl TryFrom<&[u8]> for Png
Png_try_from(buffer) ==
    IF VShorter(buffer, Sz(8))
       \/ VTake(buffer, Sz(8)) # VOf(STANDARD_HEADER)
    THEN Err("invalid header")
    ELSE DecodeChunks(VDrop(buffer, Sz(8)))

\* Png::chunks
chunks(png) == png

\* Png::append_chunk
append_chunk(png, chunk) == Append(png, chunk)

\* the index of the first chunk of a type, 0 when there is none
position(cs, ty) ==
    IF \E i \in 1..Len(cs) : cs[i].chunk_type = ty
    THEN CHOOSE i \in 1..Len(cs) :
             /\ cs[i].chunk_type = ty
             /\ \A m \in 1..(i - 1) : cs[m].chunk_type # ty
    ELSE 0

RemoveAt(png, at) ==
    IF at = 0 THEN Err("no such chunk")
    ELSE Ok(SubSeq(png, 1, at - 1) \o SubSeq(png, at + 1, Len(png)))

RemoveType(png, ty) ==
    IF ty.tag # "Ok" THEN ty ELSE RemoveAt(png, position(png, ty.val))

\* Png::remove_chunk: Ok(the container without the first chunk of the type)
remove_chunk(png, type_text) == RemoveType(png, from_str(type_text))

\* Png::as_bytes
RECURSIVE Png_chunk_bytes(_)
Png_chunk_bytes(png) ==
    IF png = <<>> THEN <<>>
    ELSE VCat(as_bytes(png[1]), Png_chunk_bytes(Tail(png)))

Png_as_bytes(png) == VCat(VOf(STANDARD_HEADER), Png_chunk_bytes(png))

--------------------------------------------------------------------------
(* main.rs: the subcommands.  Each takes the contents of the file at PATH *)
(* and its arguments, and gives the command's result (Ok with what it     *)
(* prints, or the error main returns) and the contents of the file after. *)

Outcome(result, contents) == [result |-> result, file |-> contents]

\* png.append_chunk(Chunk::new(chunk_type, message)); fs::write
encode_typed(png, ty, contents, message) ==
    IF ty.tag # "Ok" THEN Outcome(ty, contents)
    ELSE Outcome(Ok(<<>>),
                 Png_as_bytes(append_chunk(png, Chunk_new(ty.val, message))))

encode_read(png, contents, type_text, message) ==
    IF png.tag # "Ok" THEN Outcome(png, contents)
    ELSE encode_typed(png.val, from_str(type_text), contents, message)

\* Some(("encode", sub_matches))
main_encode(contents, type_text, message) ==
    encode_read(Png_try_from(contents), contents, type_text, message)

\* .iter().find(|c| c.chunk_type() == &chunk_type): the index of the first
\* such chunk, 0 for None
find(cs, ty) ==
    IF \E i \in 1..Len(cs) : chunk_type(cs[i]) = ty
    THEN CHOOSE i \in 1..Len(cs) :
             /\ chunk_type(cs[i]) = ty
             /\ \A m \in 1..(i - 1) : chunk_type(cs[m]) # ty
    ELSE 0

\* .iter().rev().find(...): the index of the last such chunk
find_last(cs, ty) ==
    IF \E i \in 1..Len(cs) : chunk_type(cs[i]) = ty
    THEN CHOOSE i \in 1..Len(cs) :
             /\ chunk_type(cs[i]) = ty
             /\ \A m \in (i + 1)..Len(cs) : chunk_type(cs[m]) # ty
    ELSE 0

\* .ok_or(e)?.data_as_string()?
decode_found(cs, at, contents) ==
    IF at = 0 THEN Outcome(Err("no message found"), contents)
    ELSE Outcome(data_as_string(cs[at]), contents)

decode_typed(png, ty, contents) ==
    IF ty.tag # "Ok" THEN Outcome(ty, contents)
    ELSE decode_found(chunks(png), find(chunks(png), ty.val), contents)

decode_read(png, contents, type_text) ==
    IF png.tag # "Ok" THEN Outcome(png, contents)
    ELSE decode_typed(png.val, from_str(type_text), contents)

\* the decode subcommand, were it to take the last chunk of the type
main_decode_last(contents, type_text) ==
    IF Png_try_from(contents).tag # "Ok" \/ from_str(type_text).tag # "Ok"
    THEN decode_read(Png_try_from(contents), contents, type_text)
    ELSE decode_found(Png_try_from(contents).val,
                      find_last(Png_try_from(contents).val,
                                from_str(type_text).val),
                      contents)

\* Some(("decode", sub_matches))
main_decode(contents, type_text) ==
    decode_read(Png_try_from(contents), contents, type_text)

remove_removed(removed, contents) ==
    IF removed.tag # "Ok" THEN Outcome(removed, contents)
    ELSE Outcome(Ok(<<>>), Png_as_bytes(removed.val))

remove_read(png, contents, type_text) ==
    IF png.tag # "Ok" THEN Outcome(png, contents)
    ELSE remove_removed(remove_chunk(png.val, type_text), contents)

\* the remove subcommand, were it to leave out fs::write
main_remove_unwritten(contents, type_text) ==
    Outcome(remove_read(Png_try_from(contents), contents, type_text).result,
            contents)

\* Some(("remove", sub_matches))
main_remove(contents, type_text) ==
    remove_read(Png_try_from(contents), contents, type_text)

print_read(png, contents) ==
    IF png.tag # "Ok" THEN Outcome(png, contents)
    ELSE Outcome(Ok(SelectSeq(chunks(png.val),
                              LAMBDA c : ~is_public(chunk_type(c)))),
                 contents)

\* Some(("print", sub_matches)): the chunks that are not public
main_print(contents) == print_read(Png_try_from(contents), contents)

--------------------------------------------------------------------------
(* The state machines *)

VARIABLES
    arg,      \* the argument of a ChunkType constructor: a &str or a [u8; 4]
    typ,      \* what the constructor returned
    props,    \* the properties read from the constructed ChunkType
    kind,     \* Chunk::new's chunk_type argument
    payload,  \* Chunk::new's data argument
    made,     \* the Chunk Chunk::new returned
    wire,     \* a byte buffer: made.as_bytes(), possibly damaged since
    edit,     \* what was done to the buffer after as_bytes
    got,      \* what Chunk::try_from(wire) returned
    disk,     \* the contents of the file at PATH
    shown,    \* the last command: its name, arguments, result, and the file
              \* contents it started from
    earlier   \* the command before the last one, as shown held it

vars == <<arg, typ, props, kind, payload, made, wire, edit, got,
          disk, shown, earlier>>

None == [tag |-> "None"]

typeVars == <<arg, typ, props>>
chunkVars == <<kind, payload, made, wire, edit, got>>
cliVars == <<disk, shown, earlier>>

TypeIdle == arg = None /\ typ = None /\ props = None
ChunkIdle ==
    /\ kind = None /\ payload = None /\ made = None
    /\ wire = None /\ edit = None /\ got = None
CliIdle == disk = None /\ shown = None /\ earlier = None

\* all sequences over S of length at most n
SeqsUpTo(S, n) == UNION {[1..m -> S] : m \in 0..n}

RECURSIVE Flatten(_)
Flatten(ss) == IF ss = <<>> THEN <<>> ELSE ss[1] \o Flatten(Tail(ss))

--------------------------------------------------------------------------
(* ChunkType construction and classification (chunk_type.rs) *)

\* longest text given to from_str, in characters
MaxText == 5

\* the characters of the texts, each as its UTF-8 bytes: R u S t 1 and
\* e-acute
Chars == {<<82>>, <<117>>, <<83>>, <<116>>, <<49>>, <<195, 169>>}

Texts == {VOf(Flatten(cs)) : cs \in SeqsUpTo(Chars, MaxText)}

\* the bytes of the arrays: the letters' range ends and their neighbours
ArrayBytes == {64, 65, 90, 91, 96, 97, 122, 123}

Arrays == [1..4 -> ArrayBytes]

InitType ==
    /\ arg \in {[str |-> tx] : tx \in Texts} \cup {[arr |-> ar] : ar \in Arrays}
    /\ typ = None
    /\ props = None
    /\ ChunkIdle
    /\ CliIdle

IsStr(g) == "str" \in DOMAIN g
IsArr(g) == "arr" \in DOMAIN g

\* ChunkType::from_str(text)
FromStr ==
    /\ IsStr(arg) /\ typ = None
    /\ typ' = from_str(arg.str)
    /\ UNCHANGED <<arg, props, chunkVars, cliVars>>

\* ChunkType::try_from(array)
TryFromArray ==
    /\ IsArr(arg) /\ typ = None
    /\ typ' = ChunkType_try_from(arg.arr)
    /\ UNCHANGED <<arg, props, chunkVars, cliVars>>

\* the five predicates, read from a constructed ChunkType
Classify ==
    /\ typ # None /\ typ.tag = "Ok" /\ props = None
    /\ props' = [critical  |-> is_critical(typ.val),
                 public    |-> is_public(typ.val),
                 reserved  |-> is_reserved_bit_valid(typ.val),
                 safe      |-> is_safe_to_copy(typ.val),
                 valid     |-> is_valid(typ.val)]
    /\ UNCHANGED <<arg, typ, chunkVars, cliVars>>

NextType == FromStr \/ TryFromArray \/ Classify

SpecType == InitType /\ [][NextType]_vars

--------------------------------------------------------------------------
(* Chunk construction, encoding and decoding (chunk.rs) *)

\* longest short payload, in bytes
MaxData == 5

\* longest run of bytes appended to a buffer
MaxTail == 2

\* the chunk types: RuSt, Rust
Types == {<<82, 117, 83, 116>>, <<82, 117, 115, 116>>}

PayloadBytes == {0, 116}

\* the largest byte count a u32 holds
MaxU32 == <<Half - 1, Half - 1>>

\* the payloads: every short one, one of 2^32 - 1 bytes and some of 2^32
\* bytes and more
Payloads ==
    {VOf(q) : q \in SeqsUpTo(PayloadBytes, MaxData)}
    \cup {<<Run(pb, MaxU32)>> : pb \in PayloadBytes}
    \cup {<<Run(pb, <<Half, m>>)>> : pb \in PayloadBytes, m \in 0..MaxData}

InitChunk ==
    /\ kind \in Types
    /\ payload \in Payloads
    /\ made = None
    /\ wire = None
    /\ edit = None
    /\ got = None
    /\ TypeIdle
    /\ CliIdle

\* Chunk::new(kind, payload)
New ==
    /\ made = None
    /\ made' = Chunk_new(kind, payload)
    /\ UNCHANGED <<kind, payload, wire, edit, got, typeVars, cliVars>>

\* made.as_bytes()
AsBytes ==
    /\ made # None /\ edit = None
    /\ wire' = as_bytes(made)
    /\ edit' = [op |-> "none"]
    /\ UNCHANGED <<kind, payload, made, got, typeVars, cliVars>>

\* the buffers that get damaged are the encodings of the short payloads
Editable ==
    /\ got = None /\ edit = [op |-> "none"]
    /\ SzLeq(VLen(wire), Sz(12 + MaxData))

\* the byte at offset p of v
VAt(v, p) == VDrop(v, Sz(p))[1].b

\* v with the byte at offset p replaced
VPut(v, p, byte) ==
    VCat(VCat(VTake(v, Sz(p)), <<Run(byte, Sz(1))>>), VDrop(v, Sz(p + 1)))

\* one bit of the buffer flips
FlipBit(p, bitno) ==
    /\ Editable
    /\ p < VLen(wire)[2]
    /\ wire' = VPut(wire, p, U32Of(Xor(ByteBits(VAt(wire, p)), {bitno}))[2])
    /\ edit' = [op |-> "flip", at |-> p, bit |-> bitno]
    /\ UNCHANGED <<kind, payload, made, got, typeVars, cliVars>>

\* bytes follow the record in the buffer
Extend(tail) ==
    /\ Editable
    /\ wire' = VCat(wire, VOf(tail))
    /\ edit' = [op |-> "extend", tail |-> tail]
    /\ UNCHANGED <<kind, payload, made, got, typeVars, cliVars>>

\* the buffer loses its last m bytes
Truncate(m) ==
    /\ Editable
    /\ m <= VLen(wire)[2]
    /\ wire' = VTake(wire, SzSub(VLen(wire), Sz(m)))
    /\ edit' = [op |-> "truncate", cut |-> m]
    /\ UNCHANGED <<kind, payload, made, got, typeVars, cliVars>>

\* Chunk::try_from(wire)
TryFrom ==
    /\ edit # None /\ got = None
    /\ got' = Chunk_try_from(wire)
    /\ UNCHANGED <<kind, payload, made, wire, edit, typeVars, cliVars>>

NextChunk ==
    \/ New
    \/ AsBytes
    \/ \E p \in 0..(12 + MaxData - 1), bitno \in 0..7 : FlipBit(p, bitno)
    \/ \E tail \in SeqsUpTo(PayloadBytes, MaxTail) \ {<<>>} : Extend(tail)
    \/ \E m \in 1..(12 + MaxData) : Truncate(m)
    \/ TryFrom

SpecChunk == InitChunk /\ [][NextChunk]_vars

--------------------------------------------------------------------------
(* The subcommands on one file (main.rs) *)

\* most chunks in the file: encode is not run on a file that holds as many
MaxChunks == 2

\* most chunks in the image the commands start from
MaxInitial == 1

\* the CHUNK_TYPE arguments: RuSt and RUSt
TypeTexts ==
    {VOf(<<82, 117, 83, 116>>), VOf(<<82, 85, 83, 116>>)}

\* the MESSAGE arguments: a and b
Messages == {VOf(<<97>>), VOf(<<98>>)}

\* the chunks of the images the commands start from: a text, a payload that
\* is no UTF-8, and a text in a public chunk
InitialChunks ==
    {Chunk_new(<<82, 117, 83, 116>>, VOf(<<99>>)),
     Chunk_new(<<82, 117, 83, 116>>, VOf(<<255>>)),
     Chunk_new(<<82, 85, 83, 116>>, VOf(<<100>>))}

\* the file at PATH to start with: an image, a file that is no image, or an
\* image that lost its last byte
Images ==
    LET whole == {Png_as_bytes(cs) : cs \in SeqsUpTo(InitialChunks, MaxInitial)}
    IN  whole
        \cup {VOf(<<137, 80>>)}
        \cup {VTake(im, SzSub(VLen(im), Sz(1))) :
                 im \in {Png_as_bytes(<<c>>) : c \in InitialChunks}}

InitCli ==
    /\ disk \in Images
    /\ shown = None
    /\ earlier = None
    /\ TypeIdle
    /\ ChunkIdle

\* the number of chunks of a file's image, 0 when it is none
ChunkCount(contents) ==
    Len((Png_try_from(contents) @@ [val |-> <<>>]).val)

\* pngme encode PATH t m
Encode(t, m) ==
    /\ \E o \in {main_encode(disk, t, m)} :
          /\ disk' = o.file
          /\ shown' = [cmd |-> "encode", type |-> t, message |-> m,
                       result |-> o.result, from |-> disk]
    /\ earlier' = shown
    /\ UNCHANGED <<typeVars, chunkVars>>

\* pngme decode PATH t
Decode(t) ==
    /\ \E o \in {main_decode(disk, t)} :
          /\ disk' = o.file
          /\ shown' = [cmd |-> "decode", type |-> t,
                       result |-> o.result, from |-> disk]
    /\ earlier' = shown
    /\ UNCHANGED <<typeVars, chunkVars>>

\* pngme remove PATH t
Remove(t) ==
    /\ \E o \in {main_remove(disk, t)} :
          /\ disk' = o.file
          /\ shown' = [cmd |-> "remove", type |-> t,
                       result |-> o.result, from |-> disk]
    /\ earlier' = shown
    /\ UNCHANGED <<typeVars, chunkVars>>

\* pngme print PATH
PrintChunks ==
    /\ \E o \in {main_print(disk)} :
          /\ disk' = o.file
          /\ shown' = [cmd |-> "print", result |-> o.result, from |-> disk]
    /\ earlier' = shown
    /\ UNCHANGED <<typeVars, chunkVars>>

\* an encode while the image holds fewer than MaxChunks chunks
EncodeMore(t, m) ==
    /\ ChunkCount(disk) < MaxChunks
    /\ Encode(t, m)

NextCli ==
    \/ \E t \in TypeTexts, m \in Messages : EncodeMore(t, m)
    \/ \E t \in TypeTexts : Decode(t)
    \/ \E t \in TypeTexts : Remove(t)
    \/ PrintChunks

SpecCli == InitCli /\ [][NextCli]_vars

--------------------------------------------------------------------------
(* encode, then remove, on an image that holds chunks already (main.rs) *)

\* most chunks in the image before the encode
MaxHeld == 3

\* the images: every sequence of at most MaxHeld of the initial chunks
HeldImages == {Png_as_bytes(cs) : cs \in SeqsUpTo(InitialChunks, MaxHeld)}

InitHeld ==
    /\ disk \in HeldImages
    /\ shown = None
    /\ earlier = None
    /\ TypeIdle
    /\ ChunkIdle

\* pngme encode PATH t m as the first command
EncodeFirst(t, m) ==
    /\ shown = None
    /\ Encode(t, m)

\* pngme remove PATH t right after the encode
RemoveNext(t) ==
    /\ shown # None /\ earlier = None
    /\ Remove(t)

NextAppendRemove ==
    \/ \E t \in TypeTexts, m \in Messages : EncodeFirst(t, m)
    \/ \E t \in TypeTexts : RemoveNext(t)

SpecAppendRemove == InitHeld /\ [][NextAppendRemove]_vars

--------------------------------------------------------------------------
(* The properties *)

UpperLetters == 65..90
LowerLetters == 97..122
AllLetters(t) == \A i \in 1..Len(t) : t[i] \in UpperLetters \cup LowerLetters

\* the fields of the record a buffer of 12 bytes or more starts with
Declared(v) == from_be_bytes(VSeq(VTake(v, Sz(4))))
TypeField(v) == VSeq(VTake(VDrop(v, Sz(4)), Sz(4)))
AfterHeader(v) == SzSub(VLen(v), Sz(8))
RecordSize(v) == SzAdd(Sz(12), Declared(v))
PayloadField(v) == VTake(VDrop(v, Sz(8)), Declared(v))
CrcField(v) ==
    from_be_bytes(VSeq(VTake(VDrop(v, SzAdd(Sz(8), Declared(v))), Sz(4))))

\* the buffer holds a whole record with a type of letters
HoldsRecord(v) ==
    /\ SzLeq(Sz(12), VLen(v))
    /\ SzLeq(RecordSize(v), VLen(v))
    /\ AllLetters(TypeField(v))

\* ... and its stored CRC is the checksum of its type and payload
ValidRecord(v) ==
    /\ HoldsRecord(v)
    /\ CrcField(v) = checksum(VCat(VOf(TypeField(v)), PayloadField(v)))

\* C1: for a chunk made by Chunk::new from a type of letters and any
\* payload, Chunk::try_from of its as_bytes() succeeds with a chunk whose
\* length, chunk_type, data and crc are those of the chunk made.
C1_RoundTrip ==
    (got # None /\ edit = [op |-> "none"]) => got = Ok(made)

CrcHolds(c) ==
    crc(c) = checksum(VCat(VOf(bytes(chunk_type(c))), data(c)))

\* C2: the crc of every chunk from Chunk::new or from a successful
\* Chunk::try_from is the CRC-32 of its type bytes followed by its data, and
\* Chunk::try_from returns the error "invalid crc" whenever the stored CRC of
\* the record in the buffer differs from the checksum of its type and payload.
C2_CrcIntegrity ==
    /\ made # None => CrcHolds(made)
    /\ got.tag = "Ok" => CrcHolds(got.val)
    /\ (got # None /\ HoldsRecord(wire) /\ ~ValidRecord(wire))
           => got = Err("invalid crc")

C2_Witness ==
    /\ got = Err("invalid crc")
    /\ edit.op = "flip"
    /\ HoldsRecord(wire)
    /\ CrcHolds(made)

\* C3: for a buffer of at least 12 bytes with a type of letters whose
\* declared length is larger than the number of bytes after the 8-byte
\* header, Chunk::try_from returns an error value and does not abort.
C3_TruncatedIsError ==
    (/\ got # None
     /\ SzLeq(Sz(12), VLen(wire))
     /\ AllLetters(TypeField(wire))
     /\ SzLt(AfterHeader(wire), Declared(wire)))
        => got.tag = "Err"

\* one bit of the type bytes or of the payload bytes of an encoded chunk
\* was flipped, and the buffer decoded
FlippedTypeOrPayload ==
    /\ got # None
    /\ edit.op = "flip"
    /\ edit.at >= 4
    /\ edit.at < 8 + length(made)[2]

\* C4 as stated: after one bit of the type or payload bytes of an encoded
\* chunk flips, Chunk::try_from fails with "invalid crc".
C4_FlipIsInvalidCrc ==
    FlippedTypeOrPayload => got = Err("invalid crc")

\* C4: after one bit of the type or payload bytes of an encoded chunk flips,
\* Chunk::try_from fails: with "Invalid ChunkType" when the flip made a type
\* byte a non-letter, and with "invalid crc" otherwise.
C4_FlipFails ==
    FlippedTypeOrPayload
        => got = IF edit.at < 8 /\ ~AllLetters(TypeField(wire))
                 THEN Err("Invalid ChunkType")
                 ELSE Err("invalid crc")

C4_Witness ==
    /\ FlippedTypeOrPayload
    /\ edit.at >= 8
    /\ got = Err("invalid crc")

\* the bytes given to the constructor
ArgBytes == IF IsArr(arg) THEN arg.arr ELSE VSeq(arg.str)

\* C5: ChunkType::from_str(s) succeeds exactly when s is 4 bytes long and
\* every byte is an ASCII letter, and then gives what ChunkType::try_from
\* gives for the same 4 bytes.
C5_FromStrLetters ==
    (IsStr(arg) /\ typ # None)
        => /\ (typ.tag = "Ok") <=> (Len(ArgBytes) = 4 /\ AllLetters(ArgBytes))
           /\ typ.tag = "Ok" => typ = ChunkType_try_from(ArgBytes)

C5_Witness ==
    /\ IsStr(arg)
    /\ typ.tag = "Ok"
    /\ typ.val = <<82, 117, 83, 116>>

\* C6: of a constructed ChunkType with bytes b0..b3, is_critical is "b0 is
\* uppercase", is_public "b1 is uppercase", is_reserved_bit_valid "b2 is
\* uppercase", is_safe_to_copy "b3 is lowercase" and is_valid equals
\* is_reserved_bit_valid; and construction succeeds for four letters
\* whatever the case of b2.
C6_CaseBits ==
    /\ props # None
           => props = [critical |-> typ.val[1] \in UpperLetters,
                       public   |-> typ.val[2] \in UpperLetters,
                       reserved |-> typ.val[3] \in UpperLetters,
                       safe     |-> typ.val[4] \in LowerLetters,
                       valid    |-> typ.val[3] \in UpperLetters]
    /\ (typ # None /\ Len(ArgBytes) = 4 /\ AllLetters(ArgBytes))
           => typ.tag = "Ok"

C6_Witness ==
    /\ props # None
    /\ typ.val[3] \in LowerLetters
    /\ ~props.valid
    /\ props.safe

\* the chunks of a file's image
Decodable(contents) == Png_try_from(contents).tag = "Ok"
ChunksOf(contents) == Png_try_from(contents).val

\* the indices of the chunks of the type a text names
Matches(cs, t) == {i \in 1..Len(cs) : chunk_type(cs[i]) = VSeq(t)}

\* the file's image holds a chunk of the type
Holds(contents, t) ==
    Decodable(contents) /\ Matches(ChunksOf(contents), t) # {}

\* the index of the first chunk of the type
FirstMatch(cs, t) ==
    CHOOSE i \in Matches(cs, t) : \A m \in Matches(cs, t) : i <= m

\* the payload of the first chunk of the type in the file
FirstPayload(contents, t) ==
    data(ChunksOf(contents)[FirstMatch(ChunksOf(contents), t)])

\* a sequence without its element at index i
Without(cs, i) == SubSeq(cs, 1, i - 1) \o SubSeq(cs, i + 1, Len(cs))

\* a successful encode was followed by remove with the same type text
AppendThenRemove ==
    /\ shown # None /\ earlier # None
    /\ shown.cmd = "remove"
    /\ earlier.cmd = "encode"
    /\ earlier.result.tag = "Ok"
    /\ shown.type = earlier.type

\* C7 as stated: appending a chunk and then removing by its type succeeds and
\* leaves the chunk sequence of before the append, whatever chunks it held.
C7_AppendRemoveRestores ==
    AppendThenRemove
        => /\ shown.result.tag = "Ok"
           /\ ChunksOf(disk) = ChunksOf(earlier.from)

\* C7: appending a chunk and then removing by its type succeeds; it leaves
\* the chunk sequence of before the append when that held no chunk of the
\* type, and otherwise that sequence without its first chunk of the type,
\* followed by the appended chunk.
C7_AppendRemoveFirst ==
    AppendThenRemove
        => /\ shown.result.tag = "Ok"
           /\ ChunksOf(disk) =
                  IF Holds(earlier.from, shown.type)
                  THEN Append(Without(ChunksOf(earlier.from),
                                      FirstMatch(ChunksOf(earlier.from),
                                                 shown.type)),
                              Chunk_new(VSeq(shown.type), earlier.message))
                  ELSE ChunksOf(earlier.from)

\* the sequence before the append held three chunks: two of the type, the
\* first of them in front, and a chunk of another type behind it; the remove
\* left the other two in their order, followed by the appended chunk
C7_Witness ==
    /\ AppendThenRemove
    /\ shown.result.tag = "Ok"
    /\ Len(ChunksOf(earlier.from)) = 3
    /\ Cardinality(Matches(ChunksOf(earlier.from), shown.type)) = 2
    /\ FirstMatch(ChunksOf(earlier.from), shown.type) = 1
    /\ chunk_type(ChunksOf(earlier.from)[2]) # VSeq(shown.type)
    /\ ChunksOf(disk)
           = <<ChunksOf(earlier.from)[2], ChunksOf(earlier.from)[3],
               Chunk_new(VSeq(shown.type), earlier.message)>>
    /\ ChunksOf(disk) # ChunksOf(earlier.from)

\* the lengths of a chunk agree
LengthHolds(c) ==
    /\ AsUsize(length(c)) = VLen(data(c))
    /\ VLen(as_bytes(c)) = SzAdd(Sz(12), AsUsize(length(c)))

\* C8: of every chunk from Chunk::new, whatever the byte count of the
\* payload, and of every chunk from a successful Chunk::try_from, length() is
\* the number of bytes of data(), and as_bytes() has 12 + length() bytes.
C8_LengthIsByteCount ==
    /\ made # None => LengthHolds(made)
    /\ got.tag = "Ok" => LengthHolds(got.val)

\* C9: when the first 12 + L bytes of a buffer (L the declared length) are a
\* valid chunk record, Chunk::try_from succeeds whatever follows, returns
\* what it returns for those bytes alone, and the chunk's as_bytes() is
\* exactly those bytes.
C9_PrefixDecides ==
    (got # None /\ ValidRecord(wire))
        => /\ got.tag = "Ok"
           /\ got = Chunk_try_from(VTake(wire, RecordSize(wire)))
           /\ as_bytes(got.val) = VTake(wire, RecordSize(wire))

C9_Witness ==
    /\ got.tag = "Ok"
    /\ edit.op = "extend"
    /\ ValidRecord(wire)
    /\ SzLt(RecordSize(wire), VLen(wire))

\* decode was run with a type the file holds
DecodedHeld ==
    /\ shown # None
    /\ shown.cmd = "decode"
    /\ Holds(disk, shown.type)

\* C10 as stated, its first part: decode of a type the file holds reports
\* the payload of the first chunk of that type.
C10_DecodeReportsPayload ==
    DecodedHeld => shown.result = Ok(FirstPayload(disk, shown.type))

\* decode of a type the file holds reports the payload of the first chunk of
\* that type when it is UTF-8, and the encoding error when it is not
DecodeReportsFirst ==
    DecodedHeld
        => shown.result =
               IF Utf8Valid(FirstPayload(disk, shown.type))
               THEN Ok(FirstPayload(disk, shown.type))
               ELSE Err("FromUtf8Error")

\* a successful encode with a type the file held leaves what decode of that
\* type reports as it was before the encode
EncodeKeepsReport ==
    (/\ shown # None
     /\ shown.cmd = "encode"
     /\ shown.result.tag = "Ok"
     /\ Holds(shown.from, shown.type))
        => main_decode(disk, shown.type).result
               = main_decode(shown.from, shown.type).result

\* C10: after any encode commands, decode of a type T the file holds reports
\* the first chunk of type T in sequence order (its payload when that is
\* UTF-8, the encoding error when not), and an encode with a type T that is
\* already present never changes what decode T reports.
C10_FirstMatchShadowing == DecodeReportsFirst /\ EncodeKeepsReport

C10_Witness ==
    /\ DecodedHeld
    /\ earlier # None
    /\ earlier.cmd = "encode"
    /\ earlier.result.tag = "Ok"
    /\ earlier.type = shown.type
    /\ Holds(earlier.from, shown.type)
    /\ shown.result = Ok(FirstPayload(disk, shown.type))
    /\ shown.result.val # earlier.message

==========================================================================
